---- MODULE Spec2Model ----
(***************************************************************************)
(* Rule mining and rule evaluation of vsemp/software_discovery             *)
(* (CloudArticle/vladimir/vladimir/code/script_v3.py and script_v4.py).    *)
(*                                                                         *)
(* Python strings (labels, tokens, str(index)) are sequences of code      *)
(* points, so that sorted(), <=, and the slice v[-len(token):] are         *)
(* computed as Python computes them.  Python sets and dicts are TLA+ sets  *)
(* and functions; wherever the code iterates over a set, or takes          *)
(* list(s)[0], the order is a nondeterministic choice.                     *)
(***************************************************************************)
EXTENDS Integers, Sequences, FiniteSets, TLC

VARIABLES
    pc,                    \* position in the module-level script
    label_to_tokens,       \* the corpus: label -> set of tokens
    token_to_labels,       \* inverse map: token -> set of labels
    label_to_token_groups, \* label -> (index -> set of tokens)
    duplicates,            \* result of get_duplicates
    limit,                 \* get_rules: limit
    max_index,             \* get_rules: max_index
    rules,                 \* get_rules: label -> list of rules
    mine,                  \* frame of the running get_rules_per_label call
    anthony_data,          \* the data read by read_anthony_data (training corpus or test data)
    threshold,             \* <<num, den>>: the threshold num/den
    todo,                  \* samples not yet visited by the evaluation loop
    sample,                \* the locals of the evaluation loop for the file last visited
    res_matrix,            \* the result matrix
    status                 \* of check_rules_on_anthony_data

vars == <<pc, label_to_tokens, token_to_labels, label_to_token_groups,
          duplicates, limit, max_index, rules, mine,
          anthony_data, threshold, todo, sample, res_matrix, status>>

trainVars == <<pc, label_to_tokens, token_to_labels, label_to_token_groups,
               duplicates, limit, max_index, rules, mine>>

evalVars == <<anthony_data, threshold, todo, sample, res_matrix, status>>

-----------------------------------------------------------------------------
(* Bounds of the model *)

\* limit ranges over 0..MaxLimit
MaxLimit == 2

\* max_index ranges over 0..MaxMaxIndex (0 = no cutoff)
MaxMaxIndex == 1

\* "A", "AB", "B": ordered A < AB < B by Python's string comparison
Labels == {<<65>>, <<65, 66>>, <<66>>}

\* "x", "y", "z", "yz": "z" is a suffix of "yz"
Tokens == {<<120>>, <<121>>, <<122>>, <<121, 122>>}

None == "None"

-----------------------------------------------------------------------------
(* Python primitives *)

\* a <= b on Python strings (lexicographic by code point)
RECURSIVE StrLeq(_, _)
StrLeq(a, b) ==
    IF a = <<>> THEN TRUE
    ELSE IF b = <<>> THEN FALSE
    ELSE IF Head(a) < Head(b) THEN TRUE
    ELSE IF Head(a) > Head(b) THEN FALSE
    ELSE StrLeq(Tail(a), Tail(b))

\* sorted(S) for a set of strings
RECURSIVE SortedStrs(_)
SortedStrs(S) ==
    IF S = {} THEN <<>>
    ELSE LET m == CHOOSE x \in S : \A y \in S : StrLeq(x, y)
         IN  <<m>> \o SortedStrs(S \ {m})

\* a set of integers listed from the largest down
RECURSIVE SortedIntsDescending(_)
SortedIntsDescending(S) ==
    IF S = {} THEN <<>>
    ELSE LET m == CHOOSE x \in S : \A y \in S : y <= x
         IN  <<m>> \o SortedIntsDescending(S \ {m})

\* sorted(S) for a set of integers
RECURSIVE SortedInts(_)
SortedInts(S) ==
    IF S = {} THEN <<>>
    ELSE LET m == CHOOSE x \in S : \A y \in S : x <= y
         IN  <<m>> \o SortedInts(S \ {m})

\* str(n) for n >= 0: the decimal digits, as code points
RECURSIVE Str(_)
Str(n) ==
    IF n < 10 THEN <<48 + n>>
    ELSE Str(n \div 10) \o <<48 + (n % 10)>>

\* the orders in which a set can be iterated
Orders(S) ==
    {f \in [1..Cardinality(S) -> S] : \A i, j \in 1..Cardinality(S) : f[i] = f[j] => i = j}

Range(s) == {s[i] : i \in DOMAIN s}

-----------------------------------------------------------------------------
(* Building the index *)

get_token_to_labels(l2t) ==
    LET toks == UNION {l2t[l] : l \in DOMAIN l2t}
    IN  [t \in toks |-> {l \in DOMAIN l2t : t \in l2t[l]}]

get_label_to_token_groups(t2l) ==
    LET labs == UNION {t2l[t] : t \in DOMAIN t2l}
    IN  [l \in labs |->
           LET mytoks == {t \in DOMAIN t2l : l \in t2l[t]}
               idxs   == {Cardinality(t2l[t]) : t \in mytoks}
           IN  [i \in idxs |-> {t \in mytoks : Cardinality(t2l[t]) = i}]]

-----------------------------------------------------------------------------
(* get_duplicates *)

\* The choices of list(label_to_token_groups[label][first_index])[0], one per label
FirstTokenChoices(l2t, groups) ==
    {f \in [DOMAIN l2t -> UNION {l2t[l] : l \in DOMAIN l2t}] :
        \A l \in DOMAIN l2t :
            LET first_index == SortedInts(DOMAIN groups[l])[1]
            IN  f[l] \in groups[l][first_index]}

\* the inner loop without the test other_label <= label of line 83
RECURSIVE DupInnerAnyOrder(_, _, _, _)
DupInnerAnyOrder(others, label, dups, l2t) ==
    IF others = <<>> THEN dups
    ELSE LET other_label == Head(others)
         IN  IF other_label \in dups
             THEN DupInnerAnyOrder(Tail(others), label, dups, l2t)
             ELSE IF l2t[label] = l2t[other_label]
             THEN DupInnerAnyOrder(Tail(others), label, dups \cup {other_label}, l2t)
             ELSE DupInnerAnyOrder(Tail(others), label, dups, l2t)

\* the inner loop without the comparison of line 85: every greater label of
\* the pool is reported
RECURSIVE DupInnerNoCompare(_, _, _, _)
DupInnerNoCompare(others, label, dups, l2t) ==
    IF others = <<>> THEN dups
    ELSE LET other_label == Head(others)
         IN  IF StrLeq(other_label, label) \/ other_label \in dups
             THEN DupInnerNoCompare(Tail(others), label, dups, l2t)
             ELSE DupInnerNoCompare(Tail(others), label, dups \cup {other_label}, l2t)

\* the inner loop over sorted(list(potential_duplicates))
RECURSIVE DupInner(_, _, _, _)
DupInner(others, label, dups, l2t) ==
    IF others = <<>> THEN dups
    ELSE LET other_label == Head(others)
         IN  IF StrLeq(other_label, label) \/ other_label \in dups
             THEN DupInner(Tail(others), label, dups, l2t)
             ELSE IF l2t[label] = l2t[other_label]
             THEN DupInner(Tail(others), label, dups \cup {other_label}, l2t)
             ELSE DupInner(Tail(others), label, dups, l2t)

\* the outer loop over sorted(label_to_tokens.keys())
RECURSIVE DupOuter(_, _, _, _, _)
DupOuter(labs, dups, l2t, t2l, first_token) ==
    IF labs = <<>> THEN dups
    ELSE LET label == Head(labs)
         IN  IF label \in dups
             THEN DupOuter(Tail(labs), dups, l2t, t2l, first_token)
             ELSE LET potential_duplicates == t2l[first_token[label]]
                  IN  DupOuter(Tail(labs),
                               DupInner(SortedStrs(potential_duplicates), label, dups, l2t),
                               l2t, t2l, first_token)

\* no label is reported as a duplicate
NoDuplicates(l2t, t2l, first_token) == {}

get_duplicates(l2t, t2l, first_token) ==
    DupOuter(SortedStrs(DOMAIN l2t), {}, l2t, t2l, first_token)

-----------------------------------------------------------------------------
(* get_rules_per_label *)

anchor(token, index) == <<token, "unique to", Str(index)>>

\* the loop of lines 130-143 with the tests of lines 138 and 140 swapped: a
\* token of minus_diff is taken when there is one
RECURSIVE RuleTailsOutsideFirst(_, _, _, _)
RuleTailsOutsideFirst(order, label, used_tokens, l2t) ==
    IF order = <<>> THEN {[triplets |-> <<>>, raised |-> FALSE]}
    ELSE LET other_label == Head(order)
             plus  == l2t[label] \ l2t[other_label]
             minus == l2t[other_label] \ l2t[label]
             plus_diff  == plus \ used_tokens
             minus_diff == minus \ used_tokens
             rest == RuleTailsOutsideFirst(Tail(order), label, used_tokens, l2t)
         IN  IF ~(Cardinality(plus) + Cardinality(minus) > 0)
             THEN {[triplets |-> <<>>, raised |-> TRUE]}
             ELSE IF minus_diff # {}
             THEN {[r EXCEPT !.triplets = <<<<q, "outside vs", other_label>>>> \o @] :
                      q \in minus_diff, r \in rest}
             ELSE IF plus_diff # {}
             THEN {[r EXCEPT !.triplets = <<<<p, "inside vs", other_label>>>> \o @] :
                      p \in plus_diff, r \in rest}
             ELSE {[triplets |-> <<>>, raised |-> FALSE]}

\* the loop of lines 130-143 without lines 140-141: the loop breaks when no
\* unused token of plus_diff is left
RECURSIVE RuleTailsInsideOnly(_, _, _, _)
RuleTailsInsideOnly(order, label, used_tokens, l2t) ==
    IF order = <<>> THEN {[triplets |-> <<>>, raised |-> FALSE]}
    ELSE LET other_label == Head(order)
             plus  == l2t[label] \ l2t[other_label]
             minus == l2t[other_label] \ l2t[label]
             plus_diff  == plus \ used_tokens
             rest == RuleTailsInsideOnly(Tail(order), label, used_tokens, l2t)
         IN  IF ~(Cardinality(plus) + Cardinality(minus) > 0)
             THEN {[triplets |-> <<>>, raised |-> TRUE]}
             ELSE IF plus_diff # {}
             THEN {[r EXCEPT !.triplets = <<<<p, "inside vs", other_label>>>> \o @] :
                      p \in plus_diff, r \in rest}
             ELSE {[triplets |-> <<>>, raised |-> FALSE]}

\* Lines 130-143, the loop over the other labels of a token, visited in the
\* given order, with every possible list(...)[0].  Each outcome is the list of
\* triplets appended, and whether the assertion of line 135 failed.  The loop
\* breaks at the first other label that no unused token tells apart.
RECURSIVE RuleTails(_, _, _, _)
RuleTails(order, label, used_tokens, l2t) ==
    IF order = <<>> THEN {[triplets |-> <<>>, raised |-> FALSE]}
    ELSE LET other_label == Head(order)
             plus  == l2t[label] \ l2t[other_label]
             minus == l2t[other_label] \ l2t[label]
             plus_diff  == plus \ used_tokens
             minus_diff == minus \ used_tokens
             rest == RuleTails(Tail(order), label, used_tokens, l2t)
         IN  IF ~(Cardinality(plus) + Cardinality(minus) > 0)
             THEN {[triplets |-> <<>>, raised |-> TRUE]}
             ELSE IF plus_diff # {}
             THEN {[r EXCEPT !.triplets = <<<<p, "inside vs", other_label>>>> \o @] :
                      p \in plus_diff, r \in rest}
             ELSE IF minus_diff # {}
             THEN {[r EXCEPT !.triplets = <<<<q, "outside vs", other_label>>>> \o @] :
                      q \in minus_diff, r \in rest}
             ELSE {[triplets |-> <<>>, raised |-> FALSE]}

\* lines 128-143: the candidate rules the loop body can build for a token
CandidateRules(token, index, label, used_tokens, l2t, t2l) ==
    UNION { {[r EXCEPT !.triplets = <<anchor(token, index)>> \o @] :
                r \in RuleTails(order, label, used_tokens, l2t)} :
            order \in Orders(t2l[token] \ {label}) }

\* the test of line 144 left out: a candidate is kept whatever its length
TooShortNever(rule, index) == FALSE

\* line 144: a candidate shorter than its index is dropped
TooShort(rule, index) == Len(rule) < index

\* line 149: the limit is reached
LimitReached(rs, lim) == Len(rs) >= lim

\* no index cutoff whatever max_index is
IndexCutNever(index, mx) == FALSE

\* line 123: the index cutoff
IndexCut(index, mx) == index > mx /\ mx > 0

RuleTokens(rule) == {rule[i][1] : i \in DOMAIN rule}

\* lines 125-150 for the tokens of one bucket in the given order, from the
\* rules and used_tokens so far, for the calls that return the list target
\* (a pass that accepts another rule than the next one of target is not
\* followed): each outcome is the rules and used_tokens after the loop, and
\* whether line 150 returned.  A pass that raises the assertion of line 135
\* has no outcome.
RECURSIVE TokenLoop(_, _, _, _, _, _, _, _, _)
TokenLoop(order, index, label, rs, used_tokens, l2t, t2l, lim, target) ==
    IF order = <<>>
    THEN {[rules |-> rs, used_tokens |-> used_tokens, returned |-> FALSE]}
    ELSE LET token == Head(order) IN
         IF token \in used_tokens
         THEN TokenLoop(Tail(order), index, label, rs, used_tokens, l2t, t2l, lim, target)
         ELSE UNION {
                IF cand.raised THEN {}
                ELSE IF TooShort(cand.triplets, index)
                THEN TokenLoop(Tail(order), index, label, rs, used_tokens, l2t, t2l, lim,
                               target)
                ELSE IF Len(rs) >= Len(target) \/ cand.triplets # target[Len(rs) + 1]
                THEN {}
                ELSE IF LimitReached(Append(rs, cand.triplets), lim)
                THEN {[rules |-> Append(rs, cand.triplets),
                       used_tokens |-> used_tokens \cup RuleTokens(cand.triplets),
                       returned |-> TRUE]}
                ELSE TokenLoop(Tail(order), index, label, Append(rs, cand.triplets),
                               used_tokens \cup RuleTokens(cand.triplets), l2t, t2l, lim,
                               target)
                : cand \in CandidateRules(token, index, label, used_tokens, l2t, t2l) }

\* lines 122-151 for the sorted indices left: the lists the call returns
RECURSIVE IndexLoop(_, _, _, _, _, _, _, _, _, _)
IndexLoop(indices, label, rs, used_tokens, l2t, t2l, groups, lim, mx, target) ==
    IF indices = <<>> \/ IndexCut(Head(indices), mx) THEN {rs}
    ELSE UNION {
           UNION { IF out.returned THEN {out.rules}
                   ELSE IndexLoop(Tail(indices), label, out.rules, out.used_tokens,
                                  l2t, t2l, groups, lim, mx, target)
                   : out \in TokenLoop(order, Head(indices), label, rs, used_tokens,
                                       l2t, t2l, lim, target) }
           : order \in Orders(groups[label][Head(indices)]) }

\* lines 119-151: the list target is one that a call of get_rules_per_label
\* with these arguments can return
Returns(target, label, l2t, t2l, groups, lim, mx) ==
    target \in IndexLoop(SortedInts(DOMAIN groups[label]), label, <<>>, {},
                         l2t, t2l, groups, lim, mx, target)

-----------------------------------------------------------------------------
(* if_label *)

\* v[-k:] on a Python string: v[-0:] is v[0:], the whole string, and so is
\* v[-k:] when k >= len(v)
PySuffix(v, k) ==
    IF k = 0 \/ k >= Len(v) THEN v ELSE SubSeq(v, Len(v) - k + 1, Len(v))

\* line 260: len([v for v in changes if token == v[-len(token):]])
Matches(token, changes) ==
    Cardinality({v \in changes : token = PySuffix(v, Len(token))})

\* every triplet read as a presence test
insideAlways(triplet) == TRUE

\* line 259
inside(triplet) == triplet[2] # "outside vs"

\* line 260: the triplet breaks the rule
Broken(triplet, changes) == inside(triplet) = (Matches(triplet[1], changes) = 0)

\* lines 256-266: correct_rule after the loop over the triplets
correct_rule(rule, changes) == \A j \in DOMAIN rule : ~Broken(rule[j], changes)

\* lines 252-272: success after the loop over the rules
success(label_rules, changes) ==
    Cardinality({i \in DOMAIN label_rules : correct_rule(label_rules[i], changes)})

\* line 273 for a threshold thr = <<num, den>>, den > 0, and at least one rule:
\* success / num_rules >= num / den
if_label(label_rules, changes, thr) ==
    success(label_rules, changes) * thr[2] >= thr[1] * Len(label_rules)

-----------------------------------------------------------------------------
(* The training script, lines 376-392 *)

NoFrame == [active |-> FALSE]

NoEval == /\ anthony_data = None
          /\ threshold = None
          /\ todo = None
          /\ sample = None
          /\ res_matrix = None
          /\ status = None

Corpora == [Labels -> (SUBSET Tokens) \ {{}}]

Init ==
    /\ pc = "index"
    /\ label_to_tokens \in Corpora
    /\ token_to_labels = None
    /\ label_to_token_groups = None
    /\ duplicates = None
    /\ limit \in 0..MaxLimit
    /\ max_index \in 0..MaxMaxIndex
    /\ rules = <<>>
    /\ mine = NoFrame
    /\ NoEval

\* lines 379 and 388
GetTokenToLabels ==
    /\ pc \in {"index", "reindex"}
    /\ token_to_labels' = get_token_to_labels(label_to_tokens)
    /\ pc' = IF pc = "index" THEN "groups" ELSE "regroups"
    /\ UNCHANGED <<label_to_tokens, label_to_token_groups, duplicates, limit,
                   max_index, rules, mine>>
    /\ UNCHANGED evalVars

\* lines 381 and 390
GetLabelToTokenGroups ==
    /\ pc \in {"groups", "regroups"}
    /\ label_to_token_groups' = get_label_to_token_groups(token_to_labels)
    /\ pc' = IF pc = "groups" THEN "duplicates" ELSE "rules"
    /\ UNCHANGED <<label_to_tokens, token_to_labels, duplicates, limit,
                   max_index, rules, mine>>
    /\ UNCHANGED evalVars

\* line 383
GetDuplicates ==
    /\ pc = "duplicates"
    /\ \E first_token \in FirstTokenChoices(label_to_tokens, label_to_token_groups) :
          duplicates' = get_duplicates(label_to_tokens, token_to_labels, first_token)
    /\ pc' = "filter"
    /\ UNCHANGED <<label_to_tokens, token_to_labels, label_to_token_groups, limit,
                   max_index, rules, mine>>
    /\ UNCHANGED evalVars

\* line 385 without its filter: every label is kept
FilterDuplicatesKeepAll ==
    /\ pc = "filter"
    /\ label_to_tokens' = label_to_tokens
    /\ pc' = "reindex"
    /\ UNCHANGED <<token_to_labels, label_to_token_groups, duplicates, limit,
                   max_index, rules, mine>>
    /\ UNCHANGED evalVars

\* line 385
FilterDuplicates ==
    /\ pc = "filter"
    /\ label_to_tokens' = [k \in DOMAIN label_to_tokens \ duplicates |-> label_to_tokens[k]]
    /\ pc' = "reindex"
    /\ UNCHANGED <<token_to_labels, label_to_token_groups, duplicates, limit,
                   max_index, rules, mine>>
    /\ UNCHANGED evalVars

\* the locals of a call when used_tokens is shared between the calls: it
\* starts with the tokens of the rules already returned to get_rules
NewFrameShared(label) ==
    [active  |-> TRUE,
     label   |-> label,
     rules   |-> <<>>,
     used_tokens |-> UNION {UNION {RuleTokens(rules[l][i]) : i \in DOMAIN rules[l]} :
                               l \in DOMAIN rules},
     indices |-> SortedInts(DOMAIN label_to_token_groups[label]),
     bucket  |-> {}]

\* lines 119-122: the locals of a call of get_rules_per_label
NewFrame(label) ==
    [active  |-> TRUE,
     label   |-> label,
     rules   |-> <<>>,
     used_tokens |-> {},
     indices |-> SortedInts(DOMAIN label_to_token_groups[label]),
     bucket  |-> {}]

\* get_rules, line 162-163: the next label of the loop; get_rules_per_label
\* is entered (lines 119-122)
MineStart ==
    /\ pc = "rules"
    /\ ~mine.active
    /\ \E label \in DOMAIN label_to_token_groups \ DOMAIN rules :
          mine' = NewFrame(label)
    /\ UNCHANGED <<pc, label_to_tokens, token_to_labels, label_to_token_groups,
                   duplicates, limit, max_index, rules>>
    /\ UNCHANGED evalVars

\* the function returns mine.rules to get_rules, which stores it (line 163)
Return(rs) ==
    /\ rules' = [l \in DOMAIN rules \cup {mine.label} |->
                    IF l = mine.label THEN rs ELSE rules[l]]
    /\ mine' = NoFrame

\* line 122-124: the head of the loop over the sorted indices
MineIndex ==
    /\ pc = "rules"
    /\ mine.active
    /\ mine.bucket = {}
    /\ IF mine.indices = <<>> \/ IndexCut(Head(mine.indices), max_index)
       THEN Return(mine.rules)
       ELSE /\ mine' = [mine EXCEPT
                          !.bucket = label_to_token_groups[mine.label][Head(mine.indices)]]
            /\ UNCHANGED rules
    /\ UNCHANGED <<pc, label_to_tokens, token_to_labels, label_to_token_groups,
                   duplicates, limit, max_index>>
    /\ UNCHANGED evalVars

\* the frame after one pass of the loop body for a token that is left in the bucket
AfterToken(token) ==
    LET left == mine.bucket \ {token}
    IN  IF left = {}
        THEN [mine EXCEPT !.bucket = {}, !.indices = Tail(mine.indices)]
        ELSE [mine EXCEPT !.bucket = left]

\* lines 125-150: one pass of the loop over the tokens of the bucket
MineToken ==
    /\ pc = "rules"
    /\ mine.active
    /\ mine.bucket # {}
    /\ \E token \in mine.bucket :
         LET index == Head(mine.indices)
             label == mine.label
         IN
         IF token \in mine.used_tokens
         THEN /\ mine' = AfterToken(token)
              /\ UNCHANGED <<rules, pc>>
         ELSE
           \E cand \in CandidateRules(token, index, label, mine.used_tokens,
                                       label_to_tokens, token_to_labels) :
              LET rule == cand.triplets IN
              IF cand.raised
              THEN /\ pc' = "AssertionError"
                   /\ UNCHANGED <<rules, mine>>
              ELSE IF TooShort(rule, index)
              THEN /\ mine' = AfterToken(token)
                   /\ UNCHANGED <<rules, pc>>
              ELSE LET rs == Append(mine.rules, rule)
                   IN  /\ pc' = pc
                       /\ IF LimitReached(rs, limit)
                          THEN Return(rs)
                          ELSE /\ mine' = [AfterToken(token) EXCEPT
                                             !.rules = rs,
                                             !.used_tokens = @ \cup RuleTokens(rule)]
                               /\ UNCHANGED rules
    /\ UNCHANGED <<label_to_tokens, token_to_labels, label_to_token_groups,
                   duplicates, limit, max_index>>
    /\ UNCHANGED evalVars

\* get_rules returns (line 165)
GetRulesDone ==
    /\ pc = "rules"
    /\ ~mine.active
    /\ DOMAIN rules = DOMAIN label_to_token_groups
    /\ pc' = "trained"
    /\ UNCHANGED <<label_to_tokens, token_to_labels, label_to_token_groups,
                   duplicates, limit, max_index, rules, mine>>
    /\ UNCHANGED evalVars

Next ==
    \/ GetTokenToLabels
    \/ GetLabelToTokenGroups
    \/ GetDuplicates
    \/ FilterDuplicates
    \/ MineStart
    \/ MineIndex
    \/ MineToken
    \/ GetRulesDone

Spec == Init /\ [][Next]_vars

-----------------------------------------------------------------------------
(* get_rules called on its own, lines 154-165: the arguments are any        *)
(* signatures, the empty one included, with the index and the groups that  *)
(* get_token_to_labels and get_label_to_token_groups build from them; no   *)
(* duplicate has been removed.  A label with an empty signature is a key   *)
(* of label_to_tokens but of no bucket, so it is no key of                 *)
(* label_to_token_groups, the dictionary the loop of line 162 runs over.   *)

Signatures == [Labels -> SUBSET Tokens]

InitGetRules ==
    /\ pc = "rules"
    /\ label_to_tokens \in Signatures
    /\ token_to_labels = get_token_to_labels(label_to_tokens)
    /\ label_to_token_groups = get_label_to_token_groups(token_to_labels)
    /\ duplicates = None
    /\ limit \in 0..MaxLimit
    /\ max_index \in 0..MaxMaxIndex
    /\ rules = <<>>
    /\ mine = NoFrame
    /\ NoEval

NextGetRules ==
    \/ MineStart
    \/ MineIndex
    \/ MineToken
    \/ GetRulesDone

SpecGetRules == InitGetRules /\ [][NextGetRules]_vars

-----------------------------------------------------------------------------
(* check_rules_on_anthony_data, script_v3.py (one true label per sample)     *)
(*                                                                         *)
(* anthony_data[label] is the number of files of the label; the changes of *)
(* a file are drawn when the loop reaches the file.  Printing, GLOBAL_LOG  *)
(* and the dictionary "parameters" are left out.  The floats of the        *)
(* metrics are exact fractions <<numerator, denominator>>.                 *)

\* every label of the test data has 1..MaxFiles files
MaxFiles == 2

\* SpecMetrics: at most MaxCount files of a label are predicted right, and
\* at most MaxMissed files of a label are predicted as any one other label
MaxCount == 3

MaxMissed == 2

\* the labels of the test data: "A", "B"
EvalLabels == {<<65>>, <<66>>}

\* the row 'total'
total == <<116, 111, 116, 97, 108>>

\* a token of its own for each label: "x" for "A", "yz" for "B", "y" for "AB"
OwnToken(label) ==
    IF label = <<65>> THEN <<120>>
    ELSE IF label = <<66>> THEN <<121, 122>>
    ELSE <<121>>

\* Rules as get_rules_per_label returns them for the corpus
\* A = {x, z}, B = {yz, z}: the rule of the label's own token, and the rule
\* of the shared token "z"
RulePool(label) ==
    LET other == CHOOSE o \in EvalLabels : o # label
    IN  { <<anchor(OwnToken(label), 1)>>,
          <<anchor(<<122>>, 2), <<OwnToken(other), "outside vs", other>>>> }

\* the lists of at most n different rules of a pool
RECURSIVE RuleLists(_, _)
RuleLists(pool, n) ==
    IF n = 0 THEN {<<>>}
    ELSE LET shorter == RuleLists(pool, n - 1)
         IN  shorter \cup UNION {{Append(rs, r) : r \in pool \ Range(rs)} : rs \in shorter}

\* the rule dictionaries given to the evaluation
EvalRules == {f \in [EvalLabels -> UNION {RuleLists(RulePool(l), MaxLimit) : l \in EvalLabels}] :
                 \A l \in EvalLabels : f[l] \in RuleLists(RulePool(l), MaxLimit)}

\* the token sets of the test files
SampleChanges == SUBSET {<<120>>, <<121, 122>>}

\* thresholds 0.5 (line 415) and 1 (the default, line 276)
EvalThresholds == {<<1, 2>>, <<1, 1>>}

\* n copies of x
RECURSIVE Repeat(_, _)
Repeat(x, n) == IF n = 0 THEN <<>> ELSE <<x>> \o Repeat(x, n - 1)

\* lines 301-302: the true labels of the files in the order the loops visit them
RECURSIVE VisitOrder(_, _)
VisitOrder(order, data) ==
    IF order = <<>> THEN <<>>
    ELSE Repeat(Head(order), data[Head(order)]) \o VisitOrder(Tail(order), data)

\* lines 296-300
ZeroRow == [true_positive |-> 0, false_positive |-> 0, false_negative |-> 0]

NoTrain == /\ label_to_tokens = None
           /\ token_to_labels = None
           /\ label_to_token_groups = None
           /\ duplicates = None
           /\ limit = None
           /\ max_index = None
           /\ mine = NoFrame

InitEval ==
    /\ pc = "check_rules_on_anthony_data"
    /\ NoTrain
    /\ rules \in EvalRules
    /\ anthony_data \in [EvalLabels -> 1..MaxFiles]
    /\ threshold \in EvalThresholds
    /\ \E order \in Orders(EvalLabels) : todo = VisitOrder(order, anthony_data)
    /\ sample = None
    /\ res_matrix = [l \in EvalLabels |-> ZeroRow]
    /\ status = "loop"

\* lines 304-310: the labels whose rules vote for the sample
predicted_labels(rs, changes, thr) ==
    {label_tested \in DOMAIN rs : if_label(rs[label_tested], changes, thr)}

\* lines 311-314: the labels random.choice can return
Choices(predicted, labels) == IF predicted # {} THEN predicted ELSE labels

\* the score without the false negative of line 319
ScoreNoNegative(m, predicted_label, true_label) ==
    IF predicted_label = true_label
    THEN [m EXCEPT ![true_label].true_positive = @ + 1]
    ELSE [m EXCEPT ![predicted_label].false_positive = @ + 1]

\* the score without the true positive of line 316
ScoreNoPositive(m, predicted_label, true_label) ==
    IF predicted_label = true_label
    THEN m
    ELSE [m EXCEPT ![predicted_label].false_positive = @ + 1,
                   ![true_label].false_negative = @ + 1]

\* lines 315-319
Score(m, predicted_label, true_label) ==
    IF predicted_label = true_label
    THEN [m EXCEPT ![true_label].true_positive = @ + 1]
    ELSE [m EXCEPT ![predicted_label].false_positive = @ + 1,
                   ![true_label].false_negative = @ + 1]

\* lines 306-308: a label without rules is met by the loop over the labels
NoRules(rs) == \E label_tested \in DOMAIN rs : Len(rs[label_tested]) = 0

\* lines 302-319: one file of the test data
EvalSample ==
    /\ status = "loop"
    /\ todo # <<>>
    /\ LET true_label == Head(todo) IN
       \E changes \in SampleChanges :
          IF NoRules(rules)
          THEN /\ status' = "exit"
               /\ UNCHANGED <<todo, sample, res_matrix>>
          ELSE \E predicted_label \in
                     Choices(predicted_labels(rules, changes, threshold), DOMAIN anthony_data) :
                  /\ sample' = [true_label |-> true_label,
                                changes |-> changes,
                                predicted_labels |-> predicted_labels(rules, changes, threshold),
                                predicted_label |-> predicted_label]
                  /\ res_matrix' = Score(res_matrix, predicted_label, true_label)
                  /\ todo' = Tail(todo)
                  /\ status' = status
    /\ UNCHANGED <<anthony_data, threshold>>
    /\ UNCHANGED trainVars

\* lines 321-325
Totals ==
    /\ status = "loop"
    /\ todo = <<>>
    /\ LET Sum(name) ==
             LET RECURSIVE Add(_)
                 Add(S) == IF S = {} THEN 0
                           ELSE LET l == CHOOSE l \in S : TRUE
                                IN  res_matrix[l][name] + Add(S \ {l})
             IN  Add(DOMAIN anthony_data)
       IN  res_matrix' =
             [row \in DOMAIN res_matrix \cup {total} |->
                 IF row = total
                 THEN [true_positive  |-> Sum("true_positive"),
                       false_positive |-> Sum("false_positive"),
                       false_negative |-> Sum("false_negative")]
                 ELSE res_matrix[row]]
    /\ status' = "total"
    /\ UNCHANGED <<anthony_data, threshold, todo, sample>>
    /\ UNCHANGED trainVars

RECURSIVE GCD(_, _)
GCD(a, b) == IF b = 0 THEN a ELSE GCD(b, a % b)

\* the fraction n/d, d > 0, in lowest terms
Frac(n, d) == LET g == GCD(n, d) IN <<n \div g, d \div g>>

Zero == <<0, 1>>

\* lines 328-333
Precision(row) ==
    IF row.true_positive + row.false_positive = 0 THEN Zero
    ELSE Frac(row.true_positive, row.true_positive + row.false_positive)

\* the recall computed from the false positives
RecallOfPositives(row) ==
    IF row.true_positive + row.false_positive = 0 THEN Zero
    ELSE Frac(row.true_positive, row.true_positive + row.false_positive)

\* lines 334-339
Recall(row) ==
    IF row.true_positive + row.false_negative = 0 THEN Zero
    ELSE Frac(row.true_positive, row.true_positive + row.false_negative)

\* lines 340-346: 2 * p * r / (p + r)
F1(p, r) ==
    LET sum == Frac(p[1] * r[2] + r[1] * p[2], p[2] * r[2])
        prod2 == Frac(2 * p[1] * r[1], p[2] * r[2])
    IN  IF sum = Zero THEN Zero
        ELSE Frac(prod2[1] * sum[2], prod2[2] * sum[1])

\* lines 327-348: the metrics of every row, and the return
Metrics ==
    /\ status = "total"
    /\ res_matrix' =
          [row \in DOMAIN res_matrix |->
              LET r == res_matrix[row]
              IN  [true_positive  |-> r.true_positive,
                   false_positive |-> r.false_positive,
                   false_negative |-> r.false_negative,
                   precision |-> Precision(r),
                   recall    |-> Recall(r),
                   f1_score  |-> F1(Precision(r), Recall(r))]]
    /\ status' = "returned"
    /\ UNCHANGED <<anthony_data, threshold, todo, sample>>
    /\ UNCHANGED trainVars

NextEval ==
    \/ EvalSample
    \/ Totals
    \/ Metrics

SpecEval == InitEval /\ [][NextEval]_vars

\* Lines 301-319 for three labels whose rule is the 'unique to' triplet of
\* a token of their own: the loop leaves the counters of any confusion
\* matrix conf, conf[l][p] being the number of files of label l whose
\* prediction was p (a file of l holding only p's token is predicted p).
InitMetrics ==
    /\ pc = "check_rules_on_anthony_data"
    /\ NoTrain
    /\ rules = [l \in Labels |-> <<<<anchor(OwnToken(l), 1)>>>>]
    /\ threshold \in EvalThresholds
    /\ todo = <<>>
    /\ sample = None
    /\ status = "loop"
    /\ \E conf \in [Labels -> [Labels -> 0..MaxCount]] :
          LET Others(l) == Labels \ {l}
              RECURSIVE Missed(_, _)
              Missed(l, S) == IF S = {} THEN 0
                              ELSE LET p == CHOOSE p \in S : TRUE
                                   IN  conf[l][p] + Missed(l, S \ {p})
              RECURSIVE Wrong(_, _)
              Wrong(p, S) == IF S = {} THEN 0
                             ELSE LET l == CHOOSE l \in S : TRUE
                                  IN  conf[l][p] + Wrong(p, S \ {l})
          IN  /\ \A l \in Labels : \A p \in Others(l) : conf[l][p] <= MaxMissed
              /\ \A l \in Labels : conf[l][l] + Missed(l, Others(l)) >= 1
              /\ anthony_data = [l \in Labels |-> conf[l][l] + Missed(l, Others(l))]
              /\ res_matrix =
                    [l \in Labels |->
                        [true_positive  |-> conf[l][l],
                         false_positive |-> Wrong(l, Others(l)),
                         false_negative |-> Missed(l, Others(l))]]

NextMetrics ==
    \/ Totals
    \/ Metrics

SpecMetrics == InitMetrics /\ [][NextMetrics]_vars

-----------------------------------------------------------------------------
(* check_rules_on_anthony_data, script_v4.py (a set of true labels per     *)
(* sample).  anthony_data is the number of files; the changes of a file    *)
(* are drawn when the loop reaches it.  res_matrix is the list of the      *)
(* predicted labels of the files visited.                                  *)

\* script_v4.py, lines 272-276: the first triplet that breaks the rule
FirstBroken(rule, changes) ==
    CHOOSE j \in DOMAIN rule :
        /\ Broken(rule[j], changes)
        /\ \A k \in 1..(j - 1) : ~Broken(rule[k], changes)

\* the loop of if_label with success += 1 moved under the test of line 282
RECURSIVE RuleLoop4Unlabelled(_, _, _, _, _, _)
RuleLoop4Unlabelled(label_rules, label_tested, true_labels, filename, changes, acc) ==
    IF label_rules = <<>> THEN acc
    ELSE LET rule == Head(label_rules)
             next ==
                IF ~correct_rule(rule, changes)
                THEN IF label_tested \in true_labels
                     THEN [acc EXCEPT !.log = Append(@, <<"A rule broke on triplet",
                                                         rule[FirstBroken(rule, changes)],
                                                         filename>>)]
                     ELSE acc
                ELSE IF label_tested \notin true_labels
                     THEN [success |-> acc.success + 1,
                           log |-> Append(acc.log, <<"Identified", filename, label_tested,
                                                     rule[1]>>)]
                     ELSE acc
         IN  RuleLoop4Unlabelled(Tail(label_rules), label_tested, true_labels, filename,
                                 changes, next)

\* script_v4.py, lines 269-286: the loop over the rules, from success and
\* the lines added to GLOBAL_LOG so far
RECURSIVE RuleLoop4(_, _, _, _, _, _)
RuleLoop4(label_rules, label_tested, true_labels, filename, changes, acc) ==
    IF label_rules = <<>> THEN acc
    ELSE LET rule == Head(label_rules)
             next ==
                IF ~correct_rule(rule, changes)
                THEN IF label_tested \in true_labels
                     THEN [acc EXCEPT !.log = Append(@, <<"A rule broke on triplet",
                                                         rule[FirstBroken(rule, changes)],
                                                         filename>>)]
                     ELSE acc
                ELSE IF label_tested \notin true_labels
                     THEN [success |-> acc.success + 1,
                           log |-> Append(acc.log, <<"Identified", filename, label_tested,
                                                     rule[1]>>)]
                     ELSE [acc EXCEPT !.success = @ + 1]
         IN  RuleLoop4(Tail(label_rules), label_tested, true_labels, filename, changes, next)

\* script_v4.py, lines 265-287, for a threshold thr = <<num, den>> and at
\* least one rule: the value returned and the lines added to GLOBAL_LOG
if_label4(label_tested, label_rules, true_labels, filename, changes, thr) ==
    LET end == RuleLoop4(label_rules, label_tested, true_labels, filename, changes,
                         [success |-> 0, log |-> <<>>])
    IN  [returned |-> end.success * thr[2] >= thr[1] * Len(label_rules),
         log |-> end.log]

\* script_v4.py, lines 308-315 for the labels in the given order: the labels
\* appended to predicted_labels and the lines added to GLOBAL_LOG
RECURSIVE LabelLoop4(_, _, _, _, _, _)
LabelLoop4(order, rs, true_labels, filename, changes, thr) ==
    IF order = <<>> THEN [predicted_labels |-> {}, log |-> <<>>]
    ELSE LET label_tested == Head(order)
             call == if_label4(label_tested, rs[label_tested], true_labels, filename,
                               changes, thr)
             rest == LabelLoop4(Tail(order), rs, true_labels, filename, changes, thr)
         IN  [predicted_labels |-> (IF call.returned THEN {label_tested} ELSE {})
                                       \cup rest.predicted_labels,
              log |-> call.log \o rest.log]

InitEval4 ==
    /\ pc = "check_rules_on_anthony_data_v4"
    /\ NoTrain
    /\ rules \in EvalRules
    /\ anthony_data \in 0..MaxFiles
    /\ threshold \in EvalThresholds
    /\ todo = anthony_data
    /\ sample = None
    /\ res_matrix = <<>>
    /\ status = "loop"

\* script_v4.py, lines 305-316: one file of the test data
EvalFile4 ==
    /\ status = "loop"
    /\ todo > 0
    /\ \E changes \in SampleChanges, true_labels \in SUBSET EvalLabels :
          IF NoRules(rules)
          THEN /\ status' = "exit"
               /\ UNCHANGED <<todo, sample, res_matrix>>
          ELSE \E order \in Orders(DOMAIN rules) :
                  LET file == LabelLoop4(order, rules, true_labels, todo, changes,
                                         threshold)
                  IN  /\ sample' = [true_labels |-> true_labels,
                                    changes |-> changes,
                                    predicted_labels |-> file.predicted_labels,
                                    log |-> file.log]
                      /\ res_matrix' = Append(res_matrix, file.predicted_labels)
                      /\ todo' = todo - 1
                      /\ status' = status
    /\ UNCHANGED <<anthony_data, threshold>>
    /\ UNCHANGED trainVars

\* script_v4.py, line 318: return (res_matrix, parameters)
Return4 ==
    /\ status = "loop"
    /\ todo = 0
    /\ status' = "returned"
    /\ UNCHANGED <<anthony_data, threshold, todo, sample, res_matrix>>
    /\ UNCHANGED trainVars

NextEval4 ==
    \/ EvalFile4
    \/ Return4

SpecEval4 == InitEval4 /\ [][NextEval4]_vars

-----------------------------------------------------------------------------
(* The training script with get_rules left at its defaults (line 155),     *)
(* over the labels "A", "B", "C" and the tokens "w", "x", "y", "z"         *)

\* get_rules: limit = 1
DefaultLimit == 1

\* get_rules: max_index = 5
DefaultMaxIndex == 5

ScenarioCorpora ==
    [{<<65>>, <<66>>, <<67>>} -> (SUBSET {<<119>>, <<120>>, <<121>>, <<122>>}) \ {{}}]

InitDefaults ==
    /\ pc = "index"
    /\ label_to_tokens \in ScenarioCorpora
    /\ token_to_labels = None
    /\ label_to_token_groups = None
    /\ duplicates = None
    /\ limit = DefaultLimit
    /\ max_index = DefaultMaxIndex
    /\ rules = <<>>
    /\ mine = NoFrame
    /\ NoEval

SpecDefaults == InitDefaults /\ [][Next]_vars

-----------------------------------------------------------------------------
(* transform_anthony_intersection, lines 210-242                            *)
(*                                                                         *)
(* data[label] is the list of the token sets of the label's files (the     *)
(* file names play no part).  The floats 0.94 * maxval, ... are compared   *)
(* as exact fractions: for every maxval below 200 and every frequency the  *)
(* float comparison and the exact one agree.                               *)

\* every label has MaxSamples files
MaxSamples == 17

\* the files of a label share at most MaxCore tokens
MaxCore == 51

\* at most MaxExtra more tokens are found in some files of a label only
MaxExtra == 2

\* the token "t<i>"
Tok(i) == <<116>> \o Str(i)

\* lines 212-220: res[label], the number of files of the label a token is in
Counts(files) ==
    [t \in UNION Range(files) |-> Cardinality({i \in DOMAIN files : t \in files[i]})]

\* max(d.values()) of a dictionary that is not empty
MaxValue(d) == CHOOSE m \in Range(d) : \A t \in DOMAIN d : d[t] <= m

\* lines 227-238: the tests "< ratio * maxval and len(newres[label]) >= size",
\* each as <<100 * ratio, size>>
Ladder == << <<94, 40>>, <<88, 26>>, <<80, 16>>, <<70, 10>>, <<60, 8>>, <<50, 6>> >>

\* lines 225-238: the loop breaks at a token of this frequency when n tokens
\* have been added
Break(freq, maxval, n) ==
    \/ freq # maxval /\ n > 50
    \/ \E i \in DOMAIN Ladder : 100 * freq < Ladder[i][1] * maxval /\ n >= Ladder[i][2]

\* lines 224-240 over g tokens of one frequency: how many are added before
\* the loop breaks or the tokens of that frequency are exhausted
RECURSIVE Added(_, _, _, _)
Added(freq, maxval, n, g) ==
    IF g = 0 \/ Break(freq, maxval, n) THEN 0
    ELSE 1 + Added(freq, maxval, n + 1, g - 1)

\* the frequencies above bound found in res, descending
RECURSIVE Descending(_, _)
Descending(res, bound) ==
    LET below == {res[t] : t \in {u \in DOMAIN res : res[u] < bound}}
    IN  IF below = {} THEN <<>>
        ELSE LET m == CHOOSE x \in below : \A y \in below : y <= x
             IN  <<m>> \o Descending(res, m)

\* lines 224-240: sorted(res[label], key = res[label].get, reverse = True)
\* puts the tokens in descending frequency and keeps tokens of one frequency
\* in the order of the dictionary, which is the order the tokens were met in
\* sets of strings: any order.  The tokens of one frequency are visited
\* together: when the loop does not break among them all are added,
\* otherwise any choice of as many of them as are added before the break.
RECURSIVE Scan(_, _, _, _)
Scan(freqs, res, maxval, newres) ==
    IF freqs = <<>> THEN {newres}
    ELSE LET tied == {t \in DOMAIN res : res[t] = Head(freqs)}
             a    == Added(Head(freqs), maxval, Cardinality(newres), Cardinality(tied))
         IN  IF a = Cardinality(tied)
             THEN Scan(Tail(freqs), res, maxval, newres \cup tied)
             ELSE {newres \cup S : S \in {T \in SUBSET tied : Cardinality(T) = a}}

\* lines 222-241 for one label: the values newres[label] can end with
Signature(res) ==
    LET maxval == MaxValue(res)
    IN  Scan(Descending(res, maxval + 1), res, maxval, {})

\* lines 211-220: the keys of res are the labels that have a file
Counted(data) == {l \in DOMAIN data : data[l] # <<>>}

\* the dictionaries transform_anthony_intersection can return
transform_anthony_intersection(data) ==
    {newres \in [Counted(data) -> UNION {Signature(Counts(data[l])) : l \in Counted(data)}] :
        \A l \in Counted(data) : newres[l] \in Signature(Counts(data[l]))}

\* the files of a label: core tokens t1..t<core> are in every file, and the
\* extra token t<core + k> is in the first extra[k] files
Files(core, extra) ==
    [j \in 1..MaxSamples |->
        {Tok(i) : i \in 1..core} \cup {Tok(core + k) : k \in {e \in DOMAIN extra : j <= extra[e]}}]

\* the numbers of files of the extra tokens, non-increasing
Extras ==
    {e \in [1..MaxExtra -> 0..MaxSamples] : \A k \in 1..(MaxExtra - 1) : e[k + 1] <= e[k]}

InitTransform ==
    /\ pc = "transform"
    /\ \E core \in 0..MaxCore : \E extra \in Extras :
          anthony_data = (<<65>> :> Files(core, extra))
    /\ label_to_tokens = None
    /\ token_to_labels = None
    /\ label_to_token_groups = None
    /\ duplicates = None
    /\ limit = None
    /\ max_index = None
    /\ rules = None
    /\ mine = NoFrame
    /\ threshold = None
    /\ todo = None
    /\ sample = None
    /\ res_matrix = None
    /\ status = None

\* line 376: label_to_tokens = transform_anthony_intersection(anthony_corpus);
\* max() of line 224 raises ValueError for a label whose files hold no token
TransformAnthonyIntersection ==
    /\ pc = "transform"
    /\ IF \E l \in Counted(anthony_data) : DOMAIN Counts(anthony_data[l]) = {}
       THEN /\ pc' = "ValueError"
            /\ UNCHANGED label_to_tokens
       ELSE /\ pc' = "index"
            /\ label_to_tokens' \in transform_anthony_intersection(anthony_data)
    /\ UNCHANGED <<token_to_labels, label_to_token_groups, duplicates, limit,
                   max_index, rules, mine>>
    /\ UNCHANGED evalVars

NextTransform == TransformAnthonyIntersection

SpecTransform == InitTransform /\ [][NextTransform]_vars

-----------------------------------------------------------------------------
(* if_label called on its own, lines 251-273.  The parameters label_tested, *)
(* true_label and filename only choose what is printed and logged.         *)

\* "", "z", "yz": the tokens of the triplets
IfTokens == {<<>>, <<122>>, <<121, 122>>}

\* the changes of a file: any of "", "yz", "x"
IfChanges == SUBSET {<<>>, <<121, 122>>, <<120>>}

\* rules of one triplet, and of two triplets
IfRulePool ==
    {<<anchor(t, 1)>> : t \in IfTokens}
        \cup {<<anchor(t, 2), <<u, kind, <<66>>>>>> :
                 t \in IfTokens, u \in IfTokens, kind \in {"inside vs", "outside vs"}}

InitIfLabel ==
    /\ pc = "if_label"
    /\ NoTrain
    /\ \E label_rules \in RuleLists(IfRulePool, MaxLimit) : rules = (<<65>> :> label_rules)
    /\ anthony_data = None
    /\ threshold \in EvalThresholds
    /\ todo = None
    /\ \E changes \in IfChanges : sample = [changes |-> changes]
    /\ res_matrix = None
    /\ status = None

\* lines 251-273: the call returns; the division of line 273 raises
\* ZeroDivisionError for an empty list of rules
IfLabel ==
    /\ pc = "if_label"
    /\ LET label_rules == rules[<<65>>] IN
       IF Len(label_rules) = 0
       THEN /\ pc' = "ZeroDivisionError"
            /\ UNCHANGED sample
       ELSE /\ pc' = "returned"
            /\ sample' = [changes |-> sample.changes,
                          returned |-> if_label(label_rules, sample.changes, threshold)]
    /\ UNCHANGED <<label_to_tokens, token_to_labels, label_to_token_groups,
                   duplicates, limit, max_index, rules, mine>>
    /\ UNCHANGED <<anthony_data, threshold, todo, res_matrix, status>>

NextIfLabel == IfLabel

SpecIfLabel == InitIfLabel /\ [][NextIfLabel]_vars

-----------------------------------------------------------------------------
(* Properties of the rules returned by get_rules_per_label *)

\* the positions <<i, j>> of the triplets of a list of rules
Positions(rs) == UNION {{<<i, j>> : j \in DOMAIN rs[i]} : i \in DOMAIN rs}

TripletAt(rs, p) == rs[p[1]][p[2]]

\* the uniqueness index of a token in the index the miner reads
UniquenessIndex(token) == Cardinality(token_to_labels[token])

\* both triplets are of format (*), or both of format (1) or (2)
SameFormat(a, b) == (a[2] = "unique to") = (b[2] = "unique to")

\* the labels whose rules have been returned
Mined == DOMAIN rules

\* C1: for every label, over all triplets of all its returned rules (two
\* triplets of one rule included), a token occurs in at most one 'unique to'
\* triplet and in at most one 'inside vs'/'outside vs' triplet.
C1_TokenOnce ==
    \A L \in Mined :
        \A p, q \in Positions(rules[L]) :
            (p # q /\ TripletAt(rules[L], p)[1] = TripletAt(rules[L], q)[1])
                => ~SameFormat(TripletAt(rules[L], p), TripletAt(rules[L], q))

\* a returned rule of label L is complete: anchored at a token t of L, as long
\* as the uniqueness index of t, and naming every other label of t once
CompleteRule(L, rule) ==
    /\ Len(rule) >= 1
    /\ rule[1][2] = "unique to"
    /\ rule[1][1] \in label_to_tokens[L]
    /\ rule[1][3] = Str(UniquenessIndex(rule[1][1]))
    /\ Len(rule) = UniquenessIndex(rule[1][1])
    /\ \A j \in 2..Len(rule) : rule[j][2] \in {"inside vs", "outside vs"}
    /\ \A O \in token_to_labels[rule[1][1]] \ {L} :
          Cardinality({j \in 2..Len(rule) : rule[j][3] = O}) = 1

\* C2: every returned rule starts with the 'unique to' triplet of its anchor
\* t, has exactly |token_to_labels[t]| triplets, and its other triplets name
\* each other label of t exactly once: no partial candidate is emitted.
C2_RulesComplete ==
    \A L \in Mined : \A i \in DOMAIN rules[L] : CompleteRule(L, rules[L][i])

\* some label has a complete rule of several triplets, and a token of it whose
\* candidate was tried and dropped
C2_Witness ==
    /\ pc = "trained"
    /\ \E L \in Mined :
          /\ \E i \in DOMAIN rules[L] : Len(rules[L][i]) >= 2
          /\ Len(rules[L]) < limit
          /\ \E t \in label_to_tokens[L] :
                /\ ~IndexCut(UniquenessIndex(t), max_index)
                /\ \A p \in Positions(rules[L]) : TripletAt(rules[L], p)[1] # t

\* token t is found in changes by the test of line 260 although t is not v
SuffixOfOther(t, changes) == \E v \in changes : v # t /\ t = PySuffix(v, Len(t))

\* no token of the corpus is a suffix of a different token of the corpus
SuffixFree ==
    LET toks == UNION {label_to_tokens[l] : l \in DOMAIN label_to_tokens}
    IN  \A t \in toks : ~SuffixOfOther(t, toks)

\* the thresholds > 0 tried
Thresholds == {<<1, 2>>, <<1, 1>>}

\* C3: after duplicate removal, when no token is a suffix of a different
\* token, no rule mined for L passes on the signature of another label O, so
\* L is not predicted for that query for a threshold > 0.
C3_OtherSignatureFails ==
    \A L \in Mined : \A O \in DOMAIN label_to_tokens \ {L} :
        SuffixFree =>
            /\ \A i \in DOMAIN rules[L] : ~correct_rule(rules[L][i], label_to_tokens[O])
            /\ rules[L] # <<>> =>
                  \A thr \in Thresholds : ~if_label(rules[L], label_to_tokens[O], thr)

\* in a corpus without suffix pairs, rules have been returned whose anchor is
\* shared with other labels, one telling a label apart by an 'inside vs'
\* triplet and one by an 'outside vs' triplet
C3_Witness ==
    /\ SuffixFree
    /\ \E L \in Mined : \E i \in DOMAIN rules[L] :
          \E j \in 2..Len(rules[L][i]) : rules[L][i][j][2] = "outside vs"
    /\ \E L \in Mined : \E i \in DOMAIN rules[L] :
          \E j \in 2..Len(rules[L][i]) : rules[L][i][j][2] = "inside vs"

\* C4: every rule mined for L passes on L's own signature (all rules vote,
\* so L is predicted at threshold 1).
C4_SelfConsistent ==
    \A L \in Mined :
        /\ \A i \in DOMAIN rules[L] : correct_rule(rules[L][i], label_to_tokens[L])
        /\ rules[L] # <<>> => if_label(rules[L], label_to_tokens[L], <<1, 1>>)

\* C5: the number of rules returned for a label is at most limit.
C5_AtMostLimit == \A L \in Mined : Len(rules[L]) <= limit

\* C6: get_duplicates returns exactly the labels that have the signature of
\* a lexicographically smaller label.
C6_Duplicates ==
    pc = "filter" =>
        duplicates =
            {l \in DOMAIN label_to_tokens :
                \E m \in DOMAIN label_to_tokens :
                    /\ m # l
                    /\ StrLeq(m, l)
                    /\ label_to_tokens[m] = label_to_tokens[l]}

\* get_duplicates has returned a duplicate, and has kept a label whose
\* signature no other label has
C6_Witness ==
    /\ pc = "filter"
    /\ duplicates # {}
    /\ \E l \in DOMAIN label_to_tokens \ duplicates :
          \A m \in DOMAIN label_to_tokens \ {l} : label_to_tokens[m] # label_to_tokens[l]

\* The rules of format (*), (1), (2) that exist for label L with all tokens
\* distinct, each as its anchor index and its set of tokens
AltRules(L) ==
    UNION {
        LET others == token_to_labels[t] \ {L} IN
        { [index |-> UniquenessIndex(t), toks |-> {t} \cup {f[O] : O \in others}] :
            f \in { g \in [others -> Tokens] :
                      /\ \A O \in others :
                            g[O] \in (label_to_tokens[L] \ label_to_tokens[O])
                                     \cup (label_to_tokens[O] \ label_to_tokens[L])
                      /\ \A O1, O2 \in others : g[O1] = g[O2] => O1 = O2 } }
        : t \in {u \in label_to_tokens[L] : ~IndexCut(UniquenessIndex(u), max_index)} }

\* the sets of at most n such rules that pairwise share no token
RECURSIVE AltLists(_, _)
AltLists(L, n) ==
    IF n = 0 THEN {{}}
    ELSE LET smaller == AltLists(L, n - 1)
         IN  smaller \cup
             UNION { { S \cup {r} :
                         r \in {a \in AltRules(L) : \A b \in S : a.toks \cap b.toks = {}} }
                     : S \in smaller }

\* the anchor indices of a set of rules, ascending
RECURSIVE SortedIndices(_)
SortedIndices(S) ==
    IF S = {} THEN <<>>
    ELSE LET m == CHOOSE r \in S : \A o \in S : r.index <= o.index
         IN  <<m.index>> \o SortedIndices(S \ {m})

\* the anchor indices of a returned list of rules, in its order
ReturnedIndices(rs) == [i \in DOMAIN rs |-> UniquenessIndex(rs[i][1][1])]

\* C7: no token-disjoint list of valid rules for the label has more rules
\* (up to limit) than the returned list, and none with at least as many rules
\* has a smaller i-th smallest anchor index than the returned list's i-th.
C7_SmallestIndices ==
    (pc = "trained") =>
        \A L \in Mined : \A S \in AltLists(L, limit) :
            /\ Cardinality(S) <= Len(rules[L])
            /\ Cardinality(S) >= Len(rules[L]) =>
                  \A i \in DOMAIN rules[L] :
                      SortedIndices(S)[i] >= ReturnedIndices(rules[L])[i]

\* the step enters get_rules_per_label
Entered == ~mine.active /\ mine'.active

\* the step stores in rules the list returned for the label mine.label
Stored == \E L \in DOMAIN rules' : L \notin DOMAIN rules

\* int(s) of a string of decimal digits
RECURSIVE ParseInt(_)
ParseInt(s) ==
    IF s = <<>> THEN 0
    ELSE 10 * ParseInt(SubSeq(s, 1, Len(s) - 1)) + (s[Len(s)] - 48)

\* the index recorded in the 'unique to' triplet of a rule
AnchorIndex(rule) == ParseInt(rule[1][3])

\* C16: every rule list returned for a label is ordered by non-decreasing
\* anchor uniqueness index: for rules at positions i < j, the index recorded
\* in rule i's 'unique to' triplet is <= that of rule j.
C16_Ordered ==
    [][ Stored =>
            LET rs == rules'[mine.label]
            IN  \A i, j \in DOMAIN rs :
                    i < j => AnchorIndex(rs[i]) <= AnchorIndex(rs[j])
      ]_vars

\* a label has been returned a rule of a smaller index before a rule of a
\* larger index
C16_Witness ==
    \E L \in Mined : \E i, j \in DOMAIN rules[L] :
        i < j /\ AnchorIndex(rules[L][i]) < AnchorIndex(rules[L][j])

\* the step leaves get_rules_per_label at the head of the loop of line 122
ReturnAtLoopHead == mine.active /\ mine.bucket = {} /\ ~mine'.active

\* C17: when max_index > 0 every returned rule has anchor index <= max_index;
\* when max_index = 0 there is no cutoff: the loop over the indices is left
\* at its head only when the buckets of every index have been tried.
C17_IndexCutoff ==
    [][ /\ max_index > 0 =>
              \A L \in DOMAIN rules' : \A i \in DOMAIN rules'[L] :
                  AnchorIndex(rules'[L][i]) <= max_index
        /\ (max_index = 0 /\ ReturnAtLoopHead) => mine.indices = <<>>
      ]_vars

\* with max_index > 0 a label has been returned fewer rules than limit, all
\* within the cutoff, and has a token of a larger index that anchored none
C17_Witness ==
    /\ pc = "trained"
    /\ max_index > 0
    /\ \E L \in Mined :
          /\ rules[L] # <<>>
          /\ Len(rules[L]) < limit
          /\ \E t \in label_to_tokens[L] : UniquenessIndex(t) > max_index

\* the tokens of the rules before position i of a rule list
UsedBefore(rs, i) == UNION {RuleTokens(rs[k]) : k \in 1..(i - 1)}

\* C19: in every rule mined for L, an 'inside vs' triplet (p, O) has p in
\* Signature[L] and not in Signature[O], an 'outside vs' triplet (q, O) has q
\* in Signature[O] and not in Signature[L], and an 'outside vs' triplet names
\* O only when every token of Signature[L] minus Signature[O] is a token of
\* L's previously accepted rules.
C19_Triplets ==
    [][ Stored =>
            LET L  == mine.label
                rs == rules'[L]
            IN  \A i \in DOMAIN rs : \A j \in 2..Len(rs[i]) :
                    LET triplet == rs[i][j]
                        O == triplet[3]
                    IN  /\ triplet[2] = "inside vs" =>
                              triplet[1] \in label_to_tokens[L] \ label_to_tokens[O]
                        /\ triplet[2] = "outside vs" =>
                              /\ triplet[1] \in label_to_tokens[O] \ label_to_tokens[L]
                              /\ (label_to_tokens[L] \ label_to_tokens[O])
                                     \subseteq UsedBefore(rs, i)
      ]_vars

\* a label has a later rule with an 'outside vs' triplet against a label it
\* has a token more than, that token being used by an earlier rule, and some
\* rule has an 'inside vs' triplet
C19_Witness ==
    /\ \E L \in Mined : \E i \in DOMAIN rules[L] : \E j \in 2..Len(rules[L][i]) :
          /\ rules[L][i][j][2] = "outside vs"
          /\ label_to_tokens[L] \ label_to_tokens[rules[L][i][j][3]] # {}
    /\ \E L \in Mined : \E i \in DOMAIN rules[L] : \E j \in 2..Len(rules[L][i]) :
          rules[L][i][j][2] = "inside vs"

\* the surviving labels whose signature contains the token
Survivors(token) == {l \in DOMAIN label_to_tokens : token \in label_to_tokens[l]}

\* C20: get_rules_per_label is entered, and its list stored, only after the
\* duplicates were removed and with the index and the groups of the filtered
\* corpus; the index recorded in every 'unique to' triplet of a stored list
\* is the number of surviving labels whose signature contains the anchor
\* token, and no removed label is named in any triplet.
C20_RebuiltIndex ==
    [][ /\ Entered =>
              /\ DOMAIN label_to_tokens \cap duplicates = {}
              /\ token_to_labels = get_token_to_labels(label_to_tokens)
              /\ label_to_token_groups = get_label_to_token_groups(token_to_labels)
        /\ Stored =>
              /\ DOMAIN label_to_tokens \cap duplicates = {}
              /\ token_to_labels = get_token_to_labels(label_to_tokens)
              /\ mine.label \notin duplicates
              /\ \A i \in DOMAIN rules'[mine.label] :
                    LET rule == rules'[mine.label][i]
                    IN  /\ AnchorIndex(rule) = Cardinality(Survivors(rule[1][1]))
                        /\ \A j \in 2..Len(rule) : rule[j][3] \notin duplicates
      ]_vars

\* a duplicate has been removed, and every surviving label has been returned
\* a rule whose recorded index is 1: for the label that had the duplicate the
\* index of that token was larger before the removal
C20_Witness ==
    /\ pc = "trained"
    /\ duplicates # {}
    /\ Cardinality(Mined) >= 2
    /\ \A L \in Mined : \E i \in DOMAIN rules[L] : AnchorIndex(rules[L][i]) = 1

\* the step returns from get_rules_per_label to get_rules
Returned == mine.active /\ ~mine'.active

\* C18: no step of a call of get_rules_per_label changes label_to_tokens,
\* token_to_labels or label_to_token_groups, and the list a call returns is
\* one that get_rules_per_label returns for the label from these three and
\* limit, max_index alone, whichever labels get_rules has mined before.
C18_Frame ==
    [][ /\ (mine.active \/ mine'.active) =>
              UNCHANGED <<label_to_tokens, token_to_labels, label_to_token_groups>>
        /\ Returned =>
              Returns(rules'[mine.label], mine.label, label_to_tokens, token_to_labels,
                      label_to_token_groups, limit, max_index)
      ]_vars

\* the last label of the loop of get_rules has been returned rules, after
\* the other labels were, all with rules that use tokens
C18_Witness ==
    /\ pc = "trained"
    /\ Cardinality(Mined) >= 3
    /\ \A L \in Mined : \E i \in DOMAIN rules[L] : Len(rules[L][i]) >= 2

-----------------------------------------------------------------------------
(* Properties of the evaluation *)

\* the step visits a file of the single-true-label evaluation and scores it
ScoredStep == todo # <<>> /\ todo' = Tail(todo)

IsQuotient(f, n, d) == f[2] > 0 /\ f[1] * d = n * f[2]

\* the metrics of a row are those of its counters
RowMetrics(r) ==
    LET TP == r.true_positive
        FP == r.false_positive
        FN == r.false_negative
        P  == r.precision
        R  == r.recall
    IN  /\ IF TP + FP = 0 THEN P = <<0, 1>> ELSE IsQuotient(P, TP, TP + FP)
        /\ IF TP + FN = 0 THEN R = <<0, 1>> ELSE IsQuotient(R, TP, TP + FN)
        /\ IF P[1] = 0 /\ R[1] = 0
           THEN r.f1_score = <<0, 1>>
           \* f1 = 2PR / (P + R), with P = P[1]/P[2] and R = R[1]/R[2]
           ELSE IsQuotient(r.f1_score, 2 * P[1] * R[1], P[1] * R[2] + R[1] * P[2])
        /\ (TP = 3 /\ FP = 1 /\ FN = 2) =>
              (P = <<3, 4>> /\ R = <<3, 5>> /\ r.f1_score = <<2, 3>>)

\* C9: in every row of the returned matrix (each label and 'total'),
\* precision = TP/(TP+FP), recall = TP/(TP+FN), f1 = 2PR/(P+R), each 0 when
\* its denominator is 0; TP=3, FP=1, FN=2 gives 3/4, 3/5 and 2/3.
C9_Metrics ==
    status = "returned" =>
        /\ total \in DOMAIN res_matrix
        /\ \A row \in DOMAIN res_matrix : RowMetrics(res_matrix[row])

\* a matrix has been returned with the row TP=3, FP=1, FN=2 and with a row
\* whose three denominators are 0
C9_Witness ==
    /\ status = "returned"
    /\ \E row \in DOMAIN res_matrix :
          /\ res_matrix[row].true_positive = 3
          /\ res_matrix[row].false_positive = 1
          /\ res_matrix[row].false_negative = 2
    /\ \E row \in DOMAIN res_matrix :
          /\ res_matrix[row].true_positive = 0
          /\ res_matrix[row].false_positive = 0
          /\ res_matrix[row].precision = <<0, 1>>

\* C10: a run of check_rules_on_anthony_data with a label whose rule list
\* is empty returns no result matrix.
C10_NoRulesNoResult == NoRules(rules) => status # "returned"

-----------------------------------------------------------------------------
(* Properties of get_rules on signatures that may be empty *)

\* C11: mining a label whose signature is empty signals an error: get_rules
\* does not return normally when a label of label_to_tokens has no token,
\* with that label's rule list empty or missing.
C11_EmptySignatureError ==
    \A L \in DOMAIN label_to_tokens :
        label_to_tokens[L] = {} => pc # "trained"

-----------------------------------------------------------------------------
(* Properties of transform_anthony_intersection *)

\* the ladder of (100 * ratio, minSize) pairs as claimed
ClaimedLadder ==
    {<<100, 50>>, <<94, 40>>, <<88, 26>>, <<80, 16>>, <<70, 10>>, <<60, 8>>, <<50, 6>>}

\* some pair of the claimed ladder has frequency < ratio * maxFreq while the
\* signature already holds at least minSize tokens
LadderStop(freq, maxFreq, n) ==
    \E r \in ClaimedLadder : 100 * freq < r[1] * maxFreq /\ n >= r[2]

\* the frequencies of the tokens in scan order: descending, with repetition
RECURSIVE ScanFrequencies(_, _)
ScanFrequencies(res, toks) ==
    IF toks = {} THEN <<>>
    ELSE LET t == CHOOSE x \in toks : \A y \in toks : res[y] <= res[x]
         IN  <<res[t]>> \o ScanFrequencies(res, toks \ {t})

\* the signature is a prefix of a scan in descending frequency that stops at
\* the first token at which the claimed ladder says stop
LadderPrefix(res, signature) ==
    LET fs == ScanFrequencies(res, DOMAIN res)
        n  == Cardinality(signature)
        maxFreq == MaxValue(res)
    IN  /\ signature \subseteq DOMAIN res
        /\ \A t \in signature : \A u \in DOMAIN res \ signature : res[u] <= res[t]
        /\ \A i \in 1..n : ~LadderStop(fs[i], maxFreq, i - 1)
        /\ n < Len(fs) => LadderStop(fs[n + 1], maxFreq, n)

\* C12: the signature of every label is the tokens scanned, in descending
\* frequency, before the first token for which some pair of the ladder
\* (1.00,50), (0.94,40), (0.88,26), (0.80,16), (0.70,10), (0.60,8), (0.50,6)
\* has frequency < ratio * maxFreq with at least minSize tokens admitted.
C12_Ladder ==
    pc = "index" =>
        \A l \in DOMAIN label_to_tokens :
            LadderPrefix(Counts(anthony_data[l]), label_to_tokens[l])

\* C15: the signature returned for a label is the only one its files can
\* give, whatever order tokens of equal frequency are visited in.
C15_Deterministic ==
    pc = "index" =>
        \A l \in DOMAIN label_to_tokens :
            Signature(Counts(anthony_data[l])) = {label_to_tokens[l]}

-----------------------------------------------------------------------------
(* Properties of if_label *)

\* t is a suffix of v; the empty string is a suffix of every string
IsSuffix(t, v) == Len(t) <= Len(v) /\ SubSeq(v, Len(v) - Len(t) + 1, Len(v)) = t

\* some element of the sample's token set has t as a suffix
Present(t, changes) == \E v \in changes : IsSuffix(t, v)

\* every 'unique to' and 'inside vs' token is present and every 'outside vs'
\* token is absent
RulePasses(rule, changes) ==
    \A j \in DOMAIN rule :
        IF rule[j][2] = "outside vs"
        THEN ~Present(rule[j][1], changes)
        ELSE Present(rule[j][1], changes)

\* C13: if_label returns true exactly when (number of passing rules) /
\* (number of rules) >= threshold, a rule passing iff its 'unique to' and
\* 'inside vs' tokens are suffixes of elements of the sample and its
\* 'outside vs' tokens are not, the empty token included.
C13_IfLabel ==
    pc = "returned" =>
        LET label_rules == rules[<<65>>]
            passing == Cardinality({i \in DOMAIN label_rules :
                                       RulePasses(label_rules[i], sample.changes)})
        IN  sample.returned <=> (passing * threshold[2] >= threshold[1] * Len(label_rules))

-----------------------------------------------------------------------------
(* The scenario A = {x, y, z}, B = {x, y}, C = {z, w} *)

ScenarioCorpus ==
    (<<65>> :> {<<120>>, <<121>>, <<122>>}) @@ (<<66>> :> {<<120>>, <<121>>})
        @@ (<<67>> :> {<<122>>, <<119>>})

\* C14: on the corpus A={x,y,z}, B={x,y}, C={z,w}, with limit=1 and
\* max_index=5, the rule list returned for A is exactly
\* [[(z, unique to, 2), (x, inside vs, C)]], and on the query {x,y,z} that
\* rule passes and A is predicted.
C14_Scenario ==
    (label_to_tokens = ScenarioCorpus /\ <<65>> \in Mined) =>
        /\ rules[<<65>>] = << <<anchor(<<122>>, 2), <<<<120>>, "inside vs", <<67>>>>>> >>
        /\ correct_rule(rules[<<65>>][1], {<<120>>, <<121>>, <<122>>})
        /\ \A thr \in Thresholds : if_label(rules[<<65>>], {<<120>>, <<121>>, <<122>>}, thr)

-----------------------------------------------------------------------------
(* Properties of mining after the duplicates are removed *)

\* C21: after get_duplicates has filtered the corpus and the index has been
\* rebuilt, the assertion of line 135 is never raised, and when a call of
\* get_rules_per_label starts, for every token and every two labels of the
\* token, plus_diff and minus_diff are not both empty: no two surviving
\* labels that share a token have equal signatures.
C21_AssertionHolds ==
    [][ /\ pc' # "AssertionError"
        /\ Entered =>
              \A token \in DOMAIN token_to_labels :
                  \A label, other_label \in token_to_labels[token] :
                      label # other_label =>
                          Cardinality(label_to_tokens[label] \ label_to_tokens[other_label])
                            + Cardinality(label_to_tokens[other_label] \ label_to_tokens[label])
                            > 0
      ]_vars

\* a duplicate has been removed and a label has been returned a rule that
\* tells it apart from a surviving label of its anchor token
C21_Witness ==
    /\ pc = "trained"
    /\ duplicates # {}
    /\ \E L \in Mined : \E i \in DOMAIN rules[L] : Len(rules[L][i]) >= 2

\* the smallest uniqueness index of the tokens of a surviving label
SmallestIndex(L) ==
    CHOOSE n \in {Cardinality(Survivors(t)) : t \in label_to_tokens[L]} :
        \A t \in label_to_tokens[L] : n <= Cardinality(Survivors(t))

\* C22: after duplicate removal, with limit >= 1, and max_index = 0 or the
\* label's smallest uniqueness index <= max_index, the list returned for a
\* label has at least one rule and its first rule's anchor index is the
\* label's smallest uniqueness index.
C22_FirstRule ==
    [][ (/\ Stored
         /\ limit >= 1
         /\ (max_index = 0 \/ SmallestIndex(mine.label) <= max_index)) =>
            LET rs == rules'[mine.label]
            IN  /\ Len(rs) >= 1
                /\ AnchorIndex(rs[1]) = SmallestIndex(mine.label)
      ]_vars

\* with limit >= 1 and no cutoff, a label all of whose tokens are shared has
\* been returned a first rule, which names another label
C22_Witness ==
    /\ pc = "trained"
    /\ limit >= 1
    /\ max_index = 0
    /\ \E L \in Mined :
          /\ SmallestIndex(L) >= 2
          /\ rules[L] # <<>>
          /\ Len(rules[L][1]) >= 2

-----------------------------------------------------------------------------
(* Properties of the counters of the single-true-label evaluation *)

\* the number of files of the label that the loop has visited
Processed(l) == anthony_data[l] - Cardinality({i \in DOMAIN todo : todo[i] = l})

\* the sum of f over the labels of S
RECURSIVE SumOver(_, _)
SumOver(S, f) ==
    IF S = {} THEN 0
    ELSE LET l == CHOOSE x \in S : TRUE
         IN  f[l] + SumOver(S \ {l}, f)

-----------------------------------------------------------------------------
(* Properties of the multi-true-label evaluation, script_v4.py *)

\* the step visits a file of the multi-true-label evaluation
Visited4 == todo' = todo - 1

\* C24: the value if_label returns depends only on the rules of the tested
\* label, the changes and the threshold: for the file a step visits, whatever
\* the true labels and the file name given to if_label, it returns true
\* exactly for the labels recorded as predicted for the file.
C24_TruthIndependent ==
    [][ Visited4 =>
            \A true_labels \in SUBSET EvalLabels : \A filename \in 0..MaxFiles :
                \A label_tested \in DOMAIN rules :
                    if_label4(label_tested, rules[label_tested], true_labels, filename,
                              sample'.changes, threshold).returned
                        <=> label_tested \in sample'.predicted_labels
      ]_vars

\* a file has been visited whose predicted labels are not its true labels,
\* with a label predicted and lines logged for it
C24_Witness ==
    /\ status = "loop"
    /\ res_matrix # <<>>
    /\ sample.predicted_labels # {}
    /\ sample.predicted_labels # sample.true_labels
    /\ sample.log # <<>>

-----------------------------------------------------------------------------
(* The candidate pool of get_duplicates *)

\* the step is the call of get_duplicates
DuplicatesReturned == pc = "duplicates" /\ pc' = "filter"

\* C25: the set get_duplicates returns is the same for every choice of the
\* token taken from each label's group of lowest uniqueness index.
C25_ChoiceIndependent ==
    [][ DuplicatesReturned =>
            \A first_token \in FirstTokenChoices(label_to_tokens, label_to_token_groups) :
                get_duplicates(label_to_tokens, token_to_labels, first_token) = duplicates'
      ]_vars

\* get_duplicates has returned for a corpus where the group of lowest
\* uniqueness index of some label holds two tokens with different pools
C25_Witness ==
    /\ pc = "filter"
    /\ \E l \in DOMAIN label_to_tokens :
          LET first_index == SortedInts(DOMAIN label_to_token_groups[l])[1]
          IN  \E t, u \in label_to_token_groups[l][first_index] :
                 token_to_labels[t] # token_to_labels[u]

====
